---------------------------- MODULE Spec2Model ----------------------------
(***************************************************************************)
(* A model of twitchlink: the variant-discovery pipeline of client::get    *)
(* (token exchange, playlist fetch, the line scanner, the keyed map and    *)
(* the final sort) and the quality selection and output dispatch of the    *)
(* binary's main.                                                          *)
(*                                                                         *)
(* Text is modelled as a sequence of tokens.  A token is a one-character   *)
(* string, one of the markers the scanner searches for ("VIDEO=",          *)
(* "BANDWIDTH=", "RESOLUTION="), or an opaque word (a number, a URL) that  *)
(* holds none of the characters '#', ',', '"' and none of the markers.     *)
(* Everything after a "VIDEO=" marker and every quality argument is        *)
(* written one character per token, so that slicing, parsing and           *)
(* formatting act on characters as the code does.                          *)
(***************************************************************************)
EXTENDS Integers, Sequences, FiniteSets, TLC

\* The longest playlist, in lines, that the playlist endpoint returns when
\* client::get is driven on its own (SpecGet).
MaxLines == 4

\* The largest number of attribute/URI blocks of a well-formed playlist
\* returned to the binary (Spec).
MaxBlocks == 3

VARIABLES
    pc,           \* position of the program
    cmdline,      \* the command line: the --quality string, --json, --list
    args,         \* Args of the binary: [quality, json, list]
    val,          \* the JSON body of the access-token response
    tokenReqs,    \* requests sent to the access-token endpoint
    playlistReqs, \* requests sent to the playlist endpoint
    playlist,     \* the playlist body, as a sequence of lines
    i,            \* index of the next line of playlist.lines()
    quality,      \* pending quality tag            (client.rs:12)
    resolution,   \* pending resolution             (client.rs:12)
    bandwidth,    \* pending bandwidth              (client.rs:12)
    map,          \* HashMap<Option<u32>, Stream>   (client.rs:9)
    warnings,     \* tags reported by "WARN: unknown quality"
    streams,      \* the Vec<Stream> returned by client::get
    err,          \* the failure that ended the run, "" when none
    stream,       \* the selected stream, <<>> when none
    output        \* what main has written or started

vars == <<pc, cmdline, args, val, tokenReqs, playlistReqs, playlist, i, quality, resolution,
          bandwidth, map, warnings, streams, err, stream, output>>

scanVars == <<playlist, i, quality, resolution, bandwidth, map, warnings>>

-----------------------------------------------------------------------------
\* Text helpers

Digits == <<"0", "1", "2", "3", "4", "5", "6", "7", "8", "9">>

IsDigit(c) == \E d \in 1..10 : Digits[d] = c

DigitValue(c) == (CHOOSE d \in 1..10 : Digits[d] = c) - 1

UpperAlpha == <<"A", "B", "C", "D", "E", "F", "G", "H", "I", "J", "K", "L", "M",
                "N", "O", "P", "Q", "R", "S", "T", "U", "V", "W", "X", "Y", "Z">>

LowerAlpha == <<"a", "b", "c", "d", "e", "f", "g", "h", "i", "j", "k", "l", "m",
                "n", "o", "p", "q", "r", "s", "t", "u", "v", "w", "x", "y", "z">>

\* char::to_ascii_lowercase
LowerChar(c) ==
    IF \E k \in 1..26 : UpperAlpha[k] = c
    THEN LowerAlpha[CHOOSE k \in 1..26 : UpperAlpha[k] = c]
    ELSE c

\* str::to_ascii_lowercase
ToAsciiLowercase(s) == [k \in 1..Len(s) |-> LowerChar(s[k])]

\* str::replace(pat, ""), for a one-token pattern
RECURSIVE Remove(_, _)
Remove(s, pat) ==
    IF s = <<>> THEN <<>>
    ELSE IF Head(s) = pat THEN Remove(Tail(s), pat)
    ELSE <<Head(s)>> \o Remove(Tail(s), pat)

\* str::find / match_indices(..).next(): 0 stands for None
FindFrom(s, pat, from) ==
    IF \E k \in from..Len(s) : s[k] = pat
    THEN CHOOSE k \in from..Len(s) :
            /\ s[k] = pat
            /\ \A j \in from..(k - 1) : s[j] # pat
    ELSE 0

Find(s, pat) == FindFrom(s, pat, 1)

\* str::contains
Contains(s, pat) == Find(s, pat) # 0

\* str::starts_with('#') and str::ends_with('p')
StartsWith(s, c) == Len(s) > 0 /\ s[1] = c

EndsWith(s, c) == Len(s) > 0 /\ s[Len(s)] = c

\* Option<u32>: None is <<>>, Some(n) is <<n>>
None == <<>>

Some(n) == <<n>>

\* <u32 as FromStr>::from_str: an optional '+', then one or more digits.
\* The result is Some(n), or None for Err.  The scanner parses three
\* characters at most, so the value never overflows a u32.
RECURSIVE DecimalValue(_)
DecimalValue(s) ==
    IF s = <<>> THEN 0
    ELSE DecimalValue(SubSeq(s, 1, Len(s) - 1)) * 10 + DigitValue(s[Len(s)])

ParseU32(s) ==
    LET body == IF StartsWith(s, "+") THEN Tail(s) ELSE s
    IN  IF body # <<>> /\ \A k \in 1..Len(body) : IsDigit(body[k])
        THEN Some(DecimalValue(body))
        ELSE None

\* format!("{}", n) for a u32
RECURSIVE Decimal(_)
Decimal(n) ==
    IF n < 10 THEN <<Digits[n + 1]>>
    ELSE Decimal(n \div 10) \o <<Digits[(n % 10) + 1]>>

-----------------------------------------------------------------------------
\* Playlist lines

Quoted(tag) == <<"\"">> \o tag \o <<"\"">>

\* #EXT-X-STREAM-INF:BANDWIDTH=<bw>,RESOLUTION=<res>,VIDEO="<tag>"
AttrLine(bw, res, tag) ==
    <<"#", "EXT-X-STREAM-INF:", "BANDWIDTH=", bw, ",", "RESOLUTION=", res, ",",
      "VIDEO=">> \o Quoted(tag)

TagChunked == <<"c", "h", "u", "n", "k", "e", "d">>

Tag720p60 == <<"7", "2", "0", "p", "6", "0">>

Tag720p30 == <<"7", "2", "0", "p", "3", "0">>

Tag480p30 == <<"4", "8", "0", "p", "3", "0">>

TagAudioOnly == <<"a", "u", "d", "i", "o", "_", "o", "n", "l", "y">>

TagHd == <<"h", "d">>

LineChunked == AttrLine("6000000", "1920x1080", TagChunked)

Line720p60 == AttrLine("3000000", "1280x720", Tag720p60)

Line720p30 == AttrLine("2000000", "1278x720", Tag720p30)

Line480p30 == AttrLine("1000000", "852x480", Tag480p30)

LineAudioOnly == AttrLine("160000", "0x0", TagAudioOnly)

LineHd == AttrLine("4000000", "1600x900", TagHd)

\* an attribute line without a BANDWIDTH= attribute
LineNoBandwidth ==
    <<"#", "EXT-X-STREAM-INF:", "RESOLUTION=", "640x360", ",", "VIDEO=">>
        \o Quoted(<<"3", "6", "0", "p", "3", "0">>)

LineComment == <<"#", "EXT-X-MEDIA:TYPE=VIDEO">>

LineHeader == <<"#", "EXTM3U">>

LineEmpty == <<>>

UriLine(name) == <<"https://video.example/", name, ".m3u8">>

LineUri == UriLine("a")

\* The lines the playlist endpoint may return to client::get.
Lines ==
    { LineChunked, Line720p60, Line720p30, Line480p30, LineAudioOnly, LineHd,
      LineNoBandwidth, LineComment, LineUri, LineEmpty }

RECURSIVE SeqsUpTo(_, _)
SeqsUpTo(S, n) ==
    IF n = 0 THEN {<<>>}
    ELSE LET shorter == SeqsUpTo(S, n - 1)
         IN  shorter \cup {Append(p, x) : p \in shorter, x \in S}

AnyPlaylists == SeqsUpTo(Lines, MaxLines)

\* A well-formed master playlist: a header line, then blocks of a media
\* comment, an attribute line and the URI line of that variant.
BlockLines == {LineChunked, Line720p60, Line480p30, LineAudioOnly}

Block(attr) == <<LineComment, attr, UriLine(attr[4])>>

RECURSIVE Flatten(_)
Flatten(blocks) ==
    IF blocks = <<>> THEN <<>>
    ELSE Block(Head(blocks)) \o Flatten(Tail(blocks))

WellFormedPlaylists ==
    {<<LineHeader>> \o Flatten(b) : b \in SeqsUpTo(BlockLines, MaxBlocks)}

-----------------------------------------------------------------------------
\* client::get, the line scanner (client.rs:15-64)

TyBest == <<"b", "e", "s", "t">>

\* struct Stream (client.rs:116-124)
Stream(link, res, bw, q, ty) ==
    [link |-> link, resolution |-> res, bandwidth |-> bw, quality |-> q, ty |-> ty]

\* The closure `search` of client.rs:24-28.  SearchOk(line, q) is false where
\* one of its two unwrap() calls panics.
SearchOk(line, q) ==
    /\ Find(line, q) # 0
    /\ FindFrom(line, ",", Find(line, q)) # 0

Search(line, q) ==
    SubSeq(line, Find(line, q) + 1, FindFrom(line, ",", Find(line, q)) - 1)

\* line[index + "VIDEO=".len()..].replace("\"", "")   (client.rs:22)
VideoTag(line) == Remove(SubSeq(line, Find(line, "VIDEO=") + 1, Len(line)), "\"")

\* Mutant of ReadAttributes: an attribute line read while a tag is pending
\* does not replace the pending tag, resolution and bandwidth.
ReadAttributesKeepFirst(line, q, r, b) ==
    IF Contains(line, "VIDEO=")
    THEN IF SearchOk(line, "BANDWIDTH=") /\ SearchOk(line, "RESOLUTION=")
         THEN IF q # <<>>
              THEN [panic |-> FALSE, quality |-> q, resolution |-> r,
                    bandwidth |-> b]
              ELSE [panic |-> FALSE, quality |-> VideoTag(line),
                    resolution |-> Search(line, "RESOLUTION="),
                    bandwidth |-> Search(line, "BANDWIDTH=")]
         ELSE [panic |-> TRUE, quality |-> VideoTag(line), resolution |-> r,
               bandwidth |-> b]
    ELSE [panic |-> FALSE, quality |-> q, resolution |-> r, bandwidth |-> b]

\* Mutant of ReadAttributes: pending resolution and bandwidth that were not
\* consumed are kept instead of being replaced.
ReadAttributesKeepPending(line, q, r, b) ==
    IF Contains(line, "VIDEO=")
    THEN IF SearchOk(line, "BANDWIDTH=") /\ SearchOk(line, "RESOLUTION=")
         THEN [panic |-> FALSE, quality |-> VideoTag(line),
               resolution |-> IF r = <<>> THEN Search(line, "RESOLUTION=") ELSE r,
               bandwidth |-> IF b = <<>> THEN Search(line, "BANDWIDTH=") ELSE b]
         ELSE [panic |-> TRUE, quality |-> VideoTag(line), resolution |-> r,
               bandwidth |-> b]
    ELSE [panic |-> FALSE, quality |-> q, resolution |-> r, bandwidth |-> b]

\* The pending state after the `if line.contains("VIDEO=")` block of
\* client.rs:16-32; panic is set where the block panics.
ReadAttributes(line, q, r, b) ==
    IF Contains(line, "VIDEO=")
    THEN IF SearchOk(line, "BANDWIDTH=") /\ SearchOk(line, "RESOLUTION=")
         THEN [panic |-> FALSE, quality |-> VideoTag(line),
               resolution |-> Search(line, "RESOLUTION="),
               bandwidth |-> Search(line, "BANDWIDTH=")]
         ELSE [panic |-> TRUE, quality |-> VideoTag(line), resolution |-> r,
               bandwidth |-> b]
    ELSE [panic |-> FALSE, quality |-> q, resolution |-> r, bandwidth |-> b]

\* Mutant of SkipLine: comment lines are not skipped while a tag is pending.
SkipLineTagOnly(q, line) == q = <<>>

\* Mutant of SkipLine: only comment lines are skipped.
SkipLineCommentOnly(q, line) == StartsWith(line, "#")

\* `quality.is_empty() || line.starts_with('#')`   (client.rs:34)
SkipLine(q, line) == q = <<>> \/ StartsWith(line, "#")

\* Mutant of Classify: the "chunked" arm is missing.
ClassifyNoChunked(q) ==
    IF Len(q) < 3 THEN "panic"
    ELSE IF ParseU32(SubSeq(q, 1, 3)) # None THEN "numeric"
    ELSE "unknown"

\* The match of client.rs:40-60 on (quality.as_str(), quality[..3].parse()):
\* "panic" where the slice quality[..3] is out of range, else the arm taken.
Classify(q) ==
    IF Len(q) < 3 THEN "panic"
    ELSE IF q = TagChunked THEN "chunked"
    ELSE IF ParseU32(SubSeq(q, 1, 3)) # None THEN "numeric"
    ELSE "unknown"

\* Mutant of MakeStream: a numeric Variant is labelled with its whole tag.
MakeStreamTagLabel(q, line, r, b) ==
    IF q = TagChunked
    THEN Stream(line, r, b, None, TyBest)
    ELSE Stream(line, r, b, Some(ParseU32(SubSeq(q, 1, 3))[1]), q)

\* The Stream built by the first two arms of the match (client.rs:41-54)
MakeStream(q, line, r, b) ==
    IF Classify(q) = "chunked"
    THEN Stream(line, r, b, None, TyBest)
    ELSE LET n == ParseU32(SubSeq(q, 1, 3))[1]
         IN  Stream(line, r, b, Some(n), Decimal(n) \o <<"p">>)

\* Mutant of MapInsert: an occupied key keeps its earlier entry.
MapInsertKeepFirst(m, k, v) ==
    [x \in (DOMAIN m) \cup {k} |-> IF x \in DOMAIN m THEN m[x] ELSE v]

\* HashMap::insert (client.rs:62)
MapInsert(m, k, v) == [x \in (DOMAIN m) \cup {k} |-> IF x = k THEN v ELSE m[x]]

EmptyMap == [x \in {} |-> <<>>]

\* One iteration of `for line in playlist.lines()`   (client.rs:15-64)
ScanLine ==
    /\ pc = "scan"
    /\ i <= Len(playlist)
    /\ LET line == playlist[i]
           p == ReadAttributes(line, quality, resolution, bandwidth)
       IN  IF p.panic
           THEN /\ pc' = "panic"
                /\ UNCHANGED <<i, quality, resolution, bandwidth, map, warnings>>
           ELSE IF SkipLine(p.quality, line)
           THEN /\ pc' = pc
                /\ i' = i + 1
                /\ quality' = p.quality
                /\ resolution' = p.resolution
                /\ bandwidth' = p.bandwidth
                /\ UNCHANGED <<map, warnings>>
           ELSE IF Classify(p.quality) = "panic"
           THEN /\ pc' = "panic"
                /\ UNCHANGED <<i, quality, resolution, bandwidth, map, warnings>>
           ELSE IF Classify(p.quality) = "unknown"
           THEN /\ pc' = pc
                /\ i' = i + 1
                /\ warnings' = Append(warnings, p.quality)
                /\ quality' = <<>>
                /\ resolution' = p.resolution
                /\ bandwidth' = p.bandwidth
                /\ UNCHANGED map
           ELSE /\ pc' = pc
                /\ i' = i + 1
                /\ map' = MapInsert(map,
                                    MakeStream(p.quality, line, p.resolution,
                                               p.bandwidth).quality,
                                    MakeStream(p.quality, line, p.resolution,
                                               p.bandwidth))
                /\ quality' = <<>>
                /\ resolution' = <<>>
                /\ bandwidth' = <<>>
                /\ UNCHANGED warnings
    /\ UNCHANGED <<cmdline, args, val, tokenReqs, playlistReqs, playlist, streams,
                   err, stream, output>>

-----------------------------------------------------------------------------
\* client::get, ordering the result (client.rs:66-74)

\* Mutant of Cmp: any two numeric ranks compare Equal.
CmpRanksEqual(a, b) ==
    IF a.quality # None /\ b.quality # None
    THEN "Equal"
    ELSE IF a.quality = None THEN "Less"
    ELSE "Greater"

\* Mutant of Cmp: numeric ranks compare ascending.
CmpAscending(a, b) ==
    IF a.quality # None /\ b.quality # None
    THEN IF a.quality[1] < b.quality[1] THEN "Less"
         ELSE IF a.quality[1] > b.quality[1] THEN "Greater"
         ELSE "Equal"
    ELSE IF a.quality = None THEN "Less"
    ELSE "Greater"

\* Mutant of Cmp: the none rank sorts after every numeric rank.
CmpNoneLast(a, b) ==
    IF a.quality # None /\ b.quality # None
    THEN IF b.quality[1] < a.quality[1] THEN "Less"
         ELSE IF b.quality[1] > a.quality[1] THEN "Greater"
         ELSE "Equal"
    ELSE IF a.quality = None THEN "Greater"
    ELSE "Less"

\* The comparator handed to sort_unstable_by (client.rs:69-73)
Cmp(a, b) ==
    IF a.quality # None /\ b.quality # None
    THEN IF b.quality[1] < a.quality[1] THEN "Less"
         ELSE IF b.quality[1] > a.quality[1] THEN "Greater"
         ELSE "Equal"
    ELSE IF a.quality = None THEN "Less"
    ELSE "Greater"

\* sort_unstable_by on a short slice is an insertion sort: each element in
\* turn is moved left past every element it compares Less than.
RECURSIVE InsertTail(_, _)
InsertTail(sorted, x) ==
    IF sorted = <<>> \/ Cmp(x, sorted[Len(sorted)]) # "Less"
    THEN Append(sorted, x)
    ELSE Append(InsertTail(SubSeq(sorted, 1, Len(sorted) - 1), x),
                sorted[Len(sorted)])

RECURSIVE SortUnstableBy(_)
SortUnstableBy(list) ==
    IF list = <<>> THEN <<>>
    ELSE InsertTail(SortUnstableBy(SubSeq(list, 1, Len(list) - 1)),
                    list[Len(list)])

\* The orders in which HashMap::into_iter may yield the entries of m
IterOrders(m) ==
    {o \in [1..Cardinality(DOMAIN m) -> DOMAIN m] :
        \A x, y \in DOMAIN o : x # y => o[x] # o[y]}

\* map.into_iter().map(|(_, v)| v).collect(), sorted, returned as Ok(list)
SortAndReturn ==
    /\ pc = "scan"
    /\ i > Len(playlist)
    /\ \E o \in IterOrders(map) :
          streams' = SortUnstableBy([k \in DOMAIN o |-> map[o[k]]])
    /\ pc' = "returned"
    /\ UNCHANGED <<cmdline, args, val, tokenReqs, playlistReqs, scanVars, err,
                   stream, output>>

-----------------------------------------------------------------------------
\* client::fetch_playlist (client.rs:77-113)

NoError == [kind |-> "", label |-> <<>>]

Error(kind) == [kind |-> kind, label |-> <<>>]

\* A field of the JSON body of the access-token response
JsonAbsent == [kind |-> "absent", text |-> ""]

JsonNumber == [kind |-> "number", text |-> ""]

JsonString(text) == [kind |-> "string", text |-> text]

JsonFields == {JsonAbsent, JsonNumber, JsonString("x")}

JsonBodies == [token : JsonFields, sig : JsonFields]

\* val.get(field).and_then(serde_json::Value::as_str)
GetStr(body, field) ==
    IF body[field].kind = "string" THEN Some(body[field].text) ELSE None

\* Mutant of TokenAndSig: the signature is looked at first.
TokenAndSigSigFirst(body) ==
    IF GetStr(body, "token") # None /\ GetStr(body, "sig") # None
    THEN NoError
    ELSE IF GetStr(body, "sig") = None THEN Error("FindSignature")
    ELSE Error("FindToken")

\* Mutant of TokenAndSig: a response with a token passes without a signature.
TokenAndSigTokenOnly(body) ==
    IF GetStr(body, "token") # None THEN NoError ELSE Error("FindToken")

\* The match of client.rs:88-95
TokenAndSig(body) ==
    IF GetStr(body, "token") # None /\ GetStr(body, "sig") # None
    THEN NoError
    ELSE IF GetStr(body, "token") = None THEN Error("FindToken")
    ELSE Error("FindSignature")

\* The request to the access-token endpoint and the extraction of the pair
RequestToken ==
    /\ pc = "token"
    /\ tokenReqs' = tokenReqs + 1
    /\ \/ /\ err' = Error("GetAccessToken")
          /\ pc' = "failed"
          /\ UNCHANGED val
       \/ /\ err' = Error("Deserialize")
          /\ pc' = "failed"
          /\ UNCHANGED val
       \/ \E body \in JsonBodies :
            /\ val' = body
            /\ err' = TokenAndSig(body)
            /\ pc' = IF TokenAndSig(body) = NoError THEN "playlist" ELSE "failed"
    /\ UNCHANGED <<cmdline, args, playlistReqs, scanVars, streams, stream, output>>

\* The request to the playlist endpoint; on success the scan of client::get
\* starts with an empty map and empty pending strings (client.rs:9-13).
RequestPlaylist(bodies) ==
    /\ pc = "playlist"
    /\ playlistReqs' = playlistReqs + 1
    /\ \/ /\ err' = Error("GetPlaylist")
          /\ pc' = "failed"
          /\ UNCHANGED scanVars
       \/ /\ err' = Error("GetResponseBody")
          /\ pc' = "failed"
          /\ UNCHANGED scanVars
       \/ \E body \in bodies :
            /\ playlist' = body
            /\ i' = 1
            /\ quality' = <<>>
            /\ resolution' = <<>>
            /\ bandwidth' = <<>>
            /\ map' = EmptyMap
            /\ warnings' = <<>>
            /\ pc' = "scan"
            /\ UNCHANGED err
    /\ UNCHANGED <<cmdline, args, val, tokenReqs, streams, stream, output>>

-----------------------------------------------------------------------------
\* enum Quality and its FromStr (client.rs:126-144)

Best == [tag |-> "Best", label |-> <<>>]

Lowest == [tag |-> "Lowest", label |-> <<>>]

Custom(label) == [tag |-> "Custom", label |-> label]

\* Quality::from_str (client.rs:135-143)
FromStr(s) ==
    LET input == ToAsciiLowercase(s)
    IN  IF input \in {<<"b", "e", "s", "t">>,
                      <<"h", "i", "g", "h", "e", "s", "t">>}
        THEN Best
        ELSE IF input \in {<<"w", "o", "r", "s", "t">>,
                           <<"l", "o", "w", "e", "s", "t", " ">>}
        THEN Lowest
        ELSE Custom(input)

\* The values given to --quality on the command line
QualityArgs ==
    { <<"b", "e", "s", "t">>,
      <<"h", "i", "g", "h", "e", "s", "t">>,
      <<"w", "o", "r", "s", "t">>,
      <<"l", "o", "w", "e", "s", "t">>,
      <<"W", "o", "r", "s", "t">>,
      <<"7", "2", "0">>,
      <<"7", "2", "0", "p">>,
      <<"4", "8", "0", "P">>,
      <<"1", "0", "8", "0", "p">> }

NoArgs == [quality |-> None, json |-> FALSE, list |-> FALSE]

-----------------------------------------------------------------------------
\* main of the binary (bin/main.rs:61-148)

\* main up to the call of client::get (bin/main.rs:61-82): the arguments
\* are parsed and TWITCH_CLIENT_ID is read from the environment.
Start ==
    /\ pc = "main"
    /\ \E q \in {None} \cup {Some(s) : s \in QualityArgs}, json, list \in BOOLEAN :
          /\ cmdline' = [quality |-> q, json |-> json, list |-> list]
          /\ args' = [quality |-> IF q = None THEN None ELSE Some(FromStr(q[1])),
                      json |-> json, list |-> list]
    /\ \/ /\ pc' = "token"
          /\ UNCHANGED err
       \/ /\ pc' = "failed"
          /\ err' = Error("NoClientId")
    /\ UNCHANGED <<val, tokenReqs, playlistReqs, scanVars, streams, stream, output>>

\* Mutant of Normalize: "p" is pushed whatever the label ends with.
NormalizeAlways(label) == Append(label, "p")

\* `if !s.ends_with('p') { s.push('p') }`   (bin/main.rs:94-96)
Normalize(label) == IF EndsWith(label, "p") THEN label ELSE Append(label, "p")

\* Mutant of FindByType: without a match the first stream is taken.
FindByTypeOrFirst(list, s) ==
    IF \E k \in 1..Len(list) : list[k].ty = s
    THEN CHOOSE k \in 1..Len(list) :
            /\ list[k].ty = s
            /\ \A j \in 1..(k - 1) : list[j].ty # s
    ELSE IF list = <<>> THEN 0 ELSE 1

\* streams.iter().find(|stream| stream.ty == *s): 0 stands for None
FindByType(list, s) ==
    IF \E k \in 1..Len(list) : list[k].ty = s
    THEN CHOOSE k \in 1..Len(list) :
            /\ list[k].ty = s
            /\ \A j \in 1..(k - 1) : list[j].ty # s
    ELSE 0

\* streams.first() and streams.last(), as Option
First(list) == IF list = <<>> THEN None ELSE Some(list[1])

\* Mutant of Last: the first stream is taken.
LastAsFirst(list) == IF list = <<>> THEN None ELSE Some(list[1])

Last(list) == IF list = <<>> THEN None ELSE Some(list[Len(list)])

\* The match on quality of bin/main.rs:84-104: the stream selected, or the
\* failure unwrap_or_abort reports.
SelectStream(list, q) ==
    IF q.tag = "Best"
    THEN [stream |-> First(list),
          err |-> IF First(list) = None THEN Error("StreamOffline") ELSE NoError]
    ELSE IF q.tag = "Lowest"
    THEN [stream |-> Last(list),
          err |-> IF Last(list) = None THEN Error("StreamOffline") ELSE NoError]
    ELSE LET s == Normalize(q.label)
             k == FindByType(list, s)
         IN  IF k = 0
             THEN [stream |-> None,
                   err |-> [kind |-> "QualityUnavailable", label |-> s]]
             ELSE [stream |-> Some(list[k]), err |-> NoError]

\* args.quality.unwrap_or_else(|| Quality::Best)   (bin/main.rs:76)
QualityOf(a) == IF a.quality = None THEN Best ELSE a.quality[1]

Select ==
    /\ pc = "returned"
    /\ stream' = SelectStream(streams, QualityOf(args)).stream
    /\ err' = SelectStream(streams, QualityOf(args)).err
    /\ pc' = IF SelectStream(streams, QualityOf(args)).err = NoError
             THEN "selected" ELSE "failed"
    /\ UNCHANGED <<cmdline, args, val, tokenReqs, playlistReqs, scanVars, streams,
                   output>>

\* Mutant of OutputFromArgs: the arm (true, false, _) is missing, so json
\* without list falls through to the player.
OutputFromArgsNoStreamsJson(json, list, singular) ==
    IF ~json /\ list /\ ~singular THEN "PrintAll"
    ELSE IF ~json /\ list /\ singular THEN "PrintOne"
    ELSE IF json /\ list /\ singular THEN "PrintOneJson"
    ELSE IF json /\ list /\ ~singular THEN "PrintAllJson"
    ELSE "OpenPlayer"

\* Output::from_args (bin/main.rs:48-58)
OutputFromArgs(json, list, singular) ==
    IF ~json /\ list /\ ~singular THEN "PrintAll"
    ELSE IF ~json /\ list /\ singular THEN "PrintOne"
    ELSE IF json /\ list /\ singular THEN "PrintOneJson"
    ELSE IF json /\ list /\ ~singular THEN "PrintAllJson"
    ELSE IF json /\ ~list THEN "PrintStreamsJson"
    ELSE "OpenPlayer"

NoOutput == [mode |-> "", printed |-> "none", spawned |-> FALSE]

\* The match on Output::from_args of bin/main.rs:106-147
Emit ==
    /\ pc = "selected"
    /\ LET singular == args.quality # None
           mode == OutputFromArgs(args.json, args.list, singular)
       IN  IF mode = "OpenPlayer"
           THEN \/ /\ output' = [mode |-> mode, printed |-> "none", spawned |-> FALSE]
                   /\ err' = Error("InvalidPlayerPath")
                   /\ pc' = "failed"
                \/ /\ output' = [mode |-> mode, printed |-> "none", spawned |-> FALSE]
                   /\ err' = Error("CannotStartPlayer")
                   /\ pc' = "failed"
                \/ /\ output' = [mode |-> mode, printed |-> "none", spawned |-> TRUE]
                   /\ pc' = "done"
                   /\ UNCHANGED err
           ELSE /\ output' =
                      [mode |-> mode,
                       printed |-> IF mode \in {"PrintAll", "PrintAllJson"} THEN "all"
                                   ELSE IF mode \in {"PrintOne", "PrintOneJson"}
                                   THEN "one"
                                   ELSE IF singular THEN "one" ELSE "all",
                       spawned |-> FALSE]
                /\ pc' = "done"
                /\ UNCHANGED err
    /\ UNCHANGED <<cmdline, args, val, tokenReqs, playlistReqs, scanVars, streams,
                   stream>>

-----------------------------------------------------------------------------
\* Specifications

InitVars ==
    /\ cmdline = NoArgs
    /\ args = NoArgs
    /\ val = [token |-> JsonAbsent, sig |-> JsonAbsent]
    /\ tokenReqs = 0
    /\ playlistReqs = 0
    /\ playlist = <<>>
    /\ i = 1
    /\ quality = <<>>
    /\ resolution = <<>>
    /\ bandwidth = <<>>
    /\ map = EmptyMap
    /\ warnings = <<>>
    /\ streams = <<>>
    /\ err = NoError
    /\ stream = None
    /\ output = NoOutput

\* The binary, run against a channel whose playlist is well formed
Init == pc = "main" /\ InitVars

Next ==
    \/ Start
    \/ RequestToken
    \/ RequestPlaylist(WellFormedPlaylists)
    \/ ScanLine
    \/ SortAndReturn
    \/ Select
    \/ Emit

Spec == Init /\ [][Next]_vars

\* client::get called on its own, against any playlist body
InitGet == pc = "token" /\ InitVars

NextGet ==
    \/ RequestToken
    \/ RequestPlaylist(AnyPlaylists)
    \/ ScanLine
    \/ SortAndReturn

SpecGet == InitGet /\ [][NextGet]_vars

-----------------------------------------------------------------------------
\* The playlist as the format describes it, for stating the properties

HasVideo(l) == \E k \in 1..Len(l) : l[k] = "VIDEO="

IsComment(l) == Len(l) > 0 /\ l[1] = "#"

\* the quality tag written on an attribute line
TagOf(l) ==
    LET at == CHOOSE k \in 1..Len(l) :
                 l[k] = "VIDEO=" /\ \A j \in 1..(k - 1) : l[j] # "VIDEO="
    IN  SelectSeq(SubSeq(l, at + 1, Len(l)), LAMBDA c : c # "\"")

\* the index of the last attribute line at or before line u, 0 when none
AttrBefore(p, u) ==
    IF \E a \in 1..u : HasVideo(p[a])
    THEN CHOOSE a \in 1..u :
            HasVideo(p[a]) /\ \A j \in (a + 1)..u : ~HasVideo(p[j])
    ELSE 0

\* line u is the URI line of attribute line a: the first line from a on that
\* is no comment, with no other attribute line in between
IsPair(p, a, u) ==
    /\ a # 0
    /\ a = AttrBefore(p, u)
    /\ ~IsComment(p[u])
    /\ \A j \in a..(u - 1) : IsComment(p[j])

NumericTag(t) == Len(t) >= 3 /\ \A k \in 1..3 : IsDigit(t[k])

ValidTag(t) == t = TagChunked \/ NumericTag(t)

\* the quality key of a valid tag: none for "chunked", else the number its
\* first three characters spell
KeyOfTag(t) ==
    IF t = TagChunked THEN <<>>
    ELSE <<100 * DigitValue(t[1]) + 10 * DigitValue(t[2]) + DigitValue(t[3])>>

ValidPairs(p) ==
    {pr \in {<<AttrBefore(p, u), u>> : u \in 1..Len(p)} :
        IsPair(p, pr[1], pr[2]) /\ ValidTag(TagOf(p[pr[1]]))}

PairKey(p, pr) == KeyOfTag(TagOf(p[pr[1]]))

PairsOfKey(p, key) == {pr \in ValidPairs(p) : PairKey(p, pr) = key}

LastPairOfKey(p, key) ==
    CHOOSE pr \in PairsOfKey(p, key) :
        \A other \in PairsOfKey(p, key) : other[2] <= pr[2]

KeysOf(list) == {list[k].quality : k \in 1..Len(list)}

\* main has matched on the quality policy, with or without success
AfterSelect ==
    \/ pc \in {"selected", "done"}
    \/ /\ pc = "failed"
       /\ err.kind \in {"StreamOffline", "QualityUnavailable", "InvalidPlayerPath",
                        "CannotStartPlayer"}

Policy == IF args.quality = None THEN "Best" ELSE args.quality[1].tag

\* the label a --quality string asks for: lower case, with a final "p"
WantedLabel(s) ==
    LET low == ToAsciiLowercase(s)
    IN  IF Len(low) > 0 /\ low[Len(low)] = "p" THEN low ELSE low \o <<"p">>

Labels(list) == {list[k].ty : k \in 1..Len(list)}

W720 == <<"7", "2", "0">>

W720p == <<"7", "2", "0", "p">>

W1080p == <<"1", "0", "8", "0", "p">>

WLowest == <<"l", "o", "w", "e", "s", "t">>

\* the access-token response was received and parsed as JSON
TokenBodyRead == tokenReqs = 1 /\ err.kind \notin {"GetAccessToken", "Deserialize"}

-----------------------------------------------------------------------------
\* Properties

\* C1: the result of get holds at most one Variant per quality key, and the
\* Variant kept under a key has the link, resolution and bandwidth of the last
\* attribute/URI pair with that key, in line order.
C1_OnePerKeyLastWins ==
    pc = "returned" =>
        /\ \A j, k \in 1..Len(streams) :
              j # k => streams[j].quality # streams[k].quality
        /\ \A k \in 1..Len(streams) :
              /\ PairsOfKey(playlist, streams[k].quality) # {}
              /\ LET pr == LastPairOfKey(playlist, streams[k].quality)
                 IN  /\ streams[k].link = playlist[pr[2]]
                     /\ streams[k].resolution = Search(playlist[pr[1]], "RESOLUTION=")
                     /\ streams[k].bandwidth = Search(playlist[pr[1]], "BANDWIDTH=")

\* C1 witness: get has returned for a playlist in which two pairs with
\* different bandwidths share a quality key.
C1_Witness ==
    /\ pc = "returned"
    /\ \E k \in 1..Len(streams) :
          \E p1, p2 \in PairsOfKey(playlist, streams[k].quality) :
              /\ p1[2] < p2[2]
              /\ Search(playlist[p1[1]], "BANDWIDTH=")
                    # Search(playlist[p2[1]], "BANDWIDTH=")

\* C2: for a well-formed playlist the Variants returned are exactly one per
\* distinct quality key of its valid attribute/URI pairs.
C2_CountEqualsDistinctKeys ==
    pc = "returned" =>
        /\ Len(streams) = Cardinality({PairKey(playlist, pr) : pr \in ValidPairs(playlist)})
        /\ KeysOf(streams) = {PairKey(playlist, pr) : pr \in ValidPairs(playlist)}

\* C2 witness: a well-formed playlist with three valid pairs and two distinct
\* keys, and an unrecognized tag, has been parsed.
C2_Witness ==
    /\ pc = "returned"
    /\ Cardinality(ValidPairs(playlist)) = 2
    /\ Len(streams) = 1
    /\ warnings # <<>>

\* C3: the returned sequence has the none-ranked Variant first when there is
\* one, then the numeric ranks in strictly descending order.
C3_Ordered ==
    pc = "returned" =>
        /\ (\E pr \in ValidPairs(playlist) : PairKey(playlist, pr) = <<>>)
              => streams[1].quality = None
        /\ \A k \in 2..Len(streams) : streams[k].quality # None
        /\ \A j, k \in 1..Len(streams) :
              (j < k /\ streams[j].quality # None)
                 => streams[j].quality[1] > streams[k].quality[1]
        /\ (streams # <<>> /\ streams[1].quality # None) =>
              \A pr \in ValidPairs(playlist) :
                  PairKey(playlist, pr)[1] <= streams[1].quality[1]

\* C3 witness: a result with the none-ranked Variant and two numeric ranks
C3_Witness ==
    /\ pc = "returned"
    /\ Len(streams) = 3
    /\ streams[1].quality = None

\* C4: on a non-empty result, policy Best selects the first element of the
\* ordered sequence and policy Lowest the last, and neither fails.
C4_BestFirstLowestLast ==
    /\ (AfterSelect /\ streams # <<>> /\ Policy = "Best")
          => stream = <<streams[1]>>
    /\ (AfterSelect /\ streams # <<>> /\ Policy = "Lowest")
          => stream = <<streams[Len(streams)]>>

\* C4 witness: Lowest has selected from a result of three Variants
C4_Witness ==
    /\ pc = "selected"
    /\ Policy = "Lowest"
    /\ Len(streams) = 3
    /\ stream = <<streams[3]>>

\* C5 as stated: on every non-empty result Lowest selects a numerically
\* ranked Variant, the one of minimum rank, and never the none-ranked one.
C5_LowestNeverNone ==
    (AfterSelect /\ streams # <<>> /\ Policy = "Lowest") =>
        /\ stream # None
        /\ stream[1].quality # None
        /\ \A k \in 1..Len(streams) :
              streams[k].quality # None
                 => stream[1].quality[1] <= streams[k].quality[1]

\* C5 amended: when the result holds a numerically ranked Variant, Lowest
\* selects the Variant of minimum numeric rank and not the none-ranked one;
\* when the none-ranked Variant is the only one, Lowest selects it.
C5_LowestMinNumeric ==
    /\ (AfterSelect /\ Policy = "Lowest"
          /\ \E k \in 1..Len(streams) : streams[k].quality # None)
       => /\ stream # None
          /\ stream[1].quality # None
          /\ \A k \in 1..Len(streams) :
                streams[k].quality # None
                   => stream[1].quality[1] <= streams[k].quality[1]
    /\ (AfterSelect /\ Policy = "Lowest" /\ KeysOf(streams) = {None})
       => stream = <<streams[1]>>

\* C5 witness: Lowest has selected from a result holding the none-ranked
\* Variant and two numeric ranks
C5_Witness ==
    /\ pc = "selected"
    /\ Policy = "Lowest"
    /\ Len(streams) = 3
    /\ streams[1].quality = None
    /\ stream[1].quality # None

\* C6 as stated: on an empty result every policy, Custom included, ends in
\* the stream-offline failure and selects nothing.
C6_EmptyIsOffline ==
    (AfterSelect /\ streams = <<>>) =>
        /\ pc = "failed"
        /\ err.kind = "StreamOffline"
        /\ stream = None

\* C7 as stated: "best"/"highest" give Best, "worst"/"lowest" give Lowest,
\* compared without regard to case, and any other string gives Custom.
C7_PolicyOfString ==
    (pc # "main" /\ cmdline.quality # None) =>
        LET low == ToAsciiLowercase(cmdline.quality[1])
        IN  args.quality[1] =
               IF low \in {<<"b", "e", "s", "t">>,
                           <<"h", "i", "g", "h", "e", "s", "t">>}
               THEN Best
               ELSE IF low \in {<<"w", "o", "r", "s", "t">>, WLowest}
               THEN Lowest
               ELSE Custom(low)

\* C8: Custom("720") and Custom("720p") select the same Variant, the one
\* labelled "720p", or fail alike, on every result; and a run given "720"
\* ends as the selection of "720p" does.
C8_CustomSuffixEquivalent ==
    /\ pc \in {"returned", "selected", "done", "failed"} =>
          /\ SelectStream(streams, FromStr(W720)) = SelectStream(streams, FromStr(W720p))
          /\ SelectStream(streams, FromStr(W720)).stream # None
                => SelectStream(streams, FromStr(W720)).stream[1].ty = W720p
          /\ (SelectStream(streams, FromStr(W720)).stream = None)
                = (W720p \notin Labels(streams))
    /\ (AfterSelect /\ cmdline.quality \in {<<W720>>, <<W720p>>}) =>
          /\ stream = SelectStream(streams, Custom(W720p)).stream
          /\ (stream = None) = (W720p \notin Labels(streams))
          /\ stream # None => stream[1].ty = W720p

\* C8 witness: a run given "720" has selected the Variant labelled "720p"
C8_Witness ==
    /\ pc = "selected"
    /\ cmdline.quality = <<W720>>
    /\ stream # None
    /\ stream[1].ty = W720p

\* C9: under Custom a Variant is selected only if its label is the
\* normalized label, and when no Variant has that label the run fails with
\* QualityUnavailable carrying the normalized label and selects nothing.
C9_CustomExactOrUnavailable ==
    (AfterSelect /\ Policy = "Custom") =>
        LET want == WantedLabel(cmdline.quality[1])
        IN  /\ stream # None =>
                  /\ stream[1].ty = want
                  /\ \E k \in 1..Len(streams) : streams[k] = stream[1]
            /\ want \notin Labels(streams) =>
                  /\ pc = "failed"
                  /\ err = [kind |-> "QualityUnavailable", label |-> want]
                  /\ stream = None
            /\ want \in Labels(streams) => stream # None

\* C9 witness: "1080p" was asked of a result holding only best and 720p,
\* and the run failed with QualityUnavailable("1080p")
C9_Witness ==
    /\ pc = "failed"
    /\ cmdline.quality = <<W1080p>>
    /\ Labels(streams) = {TyBest, W720p}
    /\ err = [kind |-> "QualityUnavailable", label |-> W1080p]

\* C10 as stated: whatever the other field is, a response without a string
\* `token` fails with MissingToken and one without a string `sig` fails with
\* MissingSignature.
C10_EachFieldReported ==
    TokenBodyRead =>
        /\ val.token.kind # "string" => (pc = "failed" /\ err.kind = "FindToken")
        /\ val.sig.kind # "string" => (pc = "failed" /\ err.kind = "FindSignature")

\* C10 amended: a response without a string `token` fails with MissingToken
\* whatever `sig` is; MissingSignature is reported when `token` is a string
\* and `sig` is absent or no string; with both strings neither is reported.
C10_TokenFirst ==
    TokenBodyRead =>
        /\ val.token.kind # "string" => (pc = "failed" /\ err.kind = "FindToken")
        /\ (val.token.kind = "string" /\ val.sig.kind # "string")
              => (pc = "failed" /\ err.kind = "FindSignature")
        /\ (val.token.kind = "string" /\ val.sig.kind = "string")
              => err.kind \notin {"FindToken", "FindSignature"}

\* C10 witness: a response with neither field has failed with MissingToken
C10_Witness ==
    /\ pc = "failed"
    /\ tokenReqs = 1
    /\ val.token.kind = "absent"
    /\ val.sig.kind = "absent"
    /\ err.kind = "FindToken"

\* C11: the stages run in sequence, once each: the access-token endpoint is
\* requested at most once, the playlist endpoint at most once and only after
\* a response with both token and signature, the scan starts only on a
\* playlist body, and a failure of the token exchange or of the playlist
\* fetch ends the run with its error, no later stage run, no Variant returned.
C11_Sequential ==
    /\ tokenReqs <= 1
    /\ playlistReqs <= 1
    /\ playlistReqs = 1 =>
          /\ tokenReqs = 1
          /\ val.token.kind = "string"
          /\ val.sig.kind = "string"
    /\ pc \in {"scan", "panic", "returned"} => (playlistReqs = 1 /\ err = NoError)
    /\ err.kind \in {"GetAccessToken", "Deserialize", "FindToken", "FindSignature"} =>
          /\ pc = "failed"
          /\ tokenReqs = 1
          /\ playlistReqs = 0
          /\ i = 1 /\ map = EmptyMap /\ streams = <<>>
    /\ err.kind \in {"GetPlaylist", "GetResponseBody"} =>
          /\ pc = "failed"
          /\ playlistReqs = 1
          /\ i = 1 /\ map = EmptyMap /\ streams = <<>>
    /\ pc = "failed" => ~ENABLED NextGet

\* C11 witness: the playlist request failed after a successful token exchange
C11_Witness ==
    /\ pc = "failed"
    /\ err.kind = "GetPlaylist"
    /\ tokenReqs = 1
    /\ playlistReqs = 1

\* the line is a URI line reached with the unrecognized tag t pending
UnknownTagAt(l, t) == ~IsComment(l) /\ ~HasVideo(l) /\ t # <<>> /\ ~ValidTag(t)

\* C12 as stated: an unrecognized pending tag, of any length, never aborts
\* the scan: the scan does not stop at the URI line such a tag is pending for.
C12_UnknownNeverAborts ==
    (playlistReqs = 1 /\ i <= Len(playlist) /\ UnknownTagAt(playlist[i], quality))
        => pc = "scan"

\* the attribute `marker` is on the line and a comma follows it
Terminated(l, marker) ==
    \E k \in 1..Len(l) : l[k] = marker /\ \E j \in (k + 1)..Len(l) : l[j] = ","

Malformed(l) ==
    HasVideo(l) /\ ~(Terminated(l, "BANDWIDTH=") /\ Terminated(l, "RESOLUTION="))

\* C13 as stated: a malformed attribute line makes get fail with the typed
\* error InvalidPlaylist: the scan never passes such a line, and where it
\* stops at one it has failed with InvalidPlaylist.
C13_MalformedIsInvalidPlaylist ==
    playlistReqs = 1 =>
        /\ \A k \in 1..(i - 1) : ~Malformed(playlist[k])
        /\ (i <= Len(playlist) /\ Malformed(playlist[i]) /\ pc # "scan")
              => (pc = "failed" /\ err.kind = "InvalidPlaylist")

\* the decimal digits of a rank below 1000
RankDigits(n) ==
    IF n < 10 THEN <<Digits[n + 1]>>
    ELSE IF n < 100 THEN <<Digits[(n \div 10) + 1], Digits[(n % 10) + 1]>>
    ELSE <<Digits[(n \div 100) + 1], Digits[((n \div 10) % 10) + 1],
           Digits[(n % 10) + 1]>>

\* the display label of a quality key
LabelOfKey(key) == IF key = <<>> THEN TyBest ELSE RankDigits(key[1]) \o <<"p">>

\* the valid pairs whose URI line the scan has passed
PairsScanned == {pr \in ValidPairs(playlist) : pr[2] < i}

\* C14: a pending tag "chunked" yields a Variant of rank none labelled
\* "best", a tag whose first three characters spell n yields rank n labelled
\* "<n>p"; so every Variant is labelled "best" exactly when its rank is none
\* and "<rank>p" otherwise.
C14_LabelOfRank ==
    /\ \A x \in DOMAIN map :
          /\ map[x].quality = x
          /\ map[x].ty = LabelOfKey(x)
          /\ (map[x].ty = TyBest) = (x = None)
    /\ \A k \in 1..Len(streams) :
          /\ streams[k].ty = LabelOfKey(streams[k].quality)
          /\ (streams[k].ty = TyBest) = (streams[k].quality = None)
    /\ pc \in {"scan", "returned"} =>
          \A pr \in PairsScanned : PairKey(playlist, pr) \in DOMAIN map

\* C14 witness: a result with the Variant "best" of rank none and the
\* Variant "720p" of rank 720
C14_Witness ==
    /\ pc = "returned"
    /\ Len(streams) = 2
    /\ streams[1].quality = None /\ streams[1].ty = TyBest
    /\ streams[2].quality = <<720>> /\ streams[2].ty = W720p

\* C15 as stated: an empty line after an attribute line is not taken as its
\* URI line, so no Variant has an empty link, neither in the map nor in the
\* result.
C15_NoEmptyLink ==
    /\ \A x \in DOMAIN map : map[x].link # <<>>
    /\ \A k \in 1..Len(streams) : streams[k].link # <<>>

\* C16: a line that is no comment, reached while no attribute line is
\* pending, is passed over: the scan goes on to the next line, the map, the
\* warnings and the empty pending tag are as before, and nothing fails.
C16_UnpairedIgnored ==
    [][(/\ pc = "scan"
        /\ i <= Len(playlist)
        /\ quality = <<>>
        /\ ~HasVideo(playlist[i])
        /\ ~IsComment(playlist[i]))
       => (/\ pc' = "scan"
           /\ i' = i + 1
           /\ map' = map
           /\ warnings' = warnings
           /\ quality' = <<>>
           /\ err' = err)]_vars

\* C16 witness: after a Variant was emitted, the scan has passed a second
\* URL line that no attribute line precedes
C16_Witness ==
    /\ pc = "scan"
    /\ i >= 3
    /\ map # EmptyMap
    /\ playlist[i - 1] = LineUri
    /\ playlist[i - 2] = LineUri
    /\ quality = <<>>

\* the value written after `marker` on an attribute line, up to the comma
AttrValue(l, marker) ==
    LET at == CHOOSE k \in 1..Len(l) :
                 l[k] = marker /\ \A j \in 1..(k - 1) : l[j] # marker
        end == CHOOSE k \in at..Len(l) :
                 l[k] = "," /\ \A j \in at..(k - 1) : l[j] # ","
    IN  SubSeq(l, at + 1, end - 1)

\* C17: every Variant carries the resolution and bandwidth of the attribute
\* line its URI line is paired with, the most recent one before it, and a
\* pending tag always comes with the resolution and bandwidth of that same
\* attribute line; values left pending by a discarded tag reach no Variant.
C17_AttributesOfOwnLine ==
    pc \in {"scan", "panic", "returned"} =>
        /\ \A x \in DOMAIN map :
              LET ps == {pr \in PairsScanned : PairKey(playlist, pr) = x}
              IN  /\ ps # {}
                  /\ LET pr == CHOOSE q \in ps : \A o \in ps : o[2] <= q[2]
                     IN  /\ map[x].link = playlist[pr[2]]
                         /\ map[x].resolution = AttrValue(playlist[pr[1]], "RESOLUTION=")
                         /\ map[x].bandwidth = AttrValue(playlist[pr[1]], "BANDWIDTH=")
        /\ (pc = "scan" /\ quality # <<>>) =>
              LET a == AttrBefore(playlist, i - 1)
              IN  /\ a # 0
                  /\ quality = TagOf(playlist[a])
                  /\ resolution = AttrValue(playlist[a], "RESOLUTION=")
                  /\ bandwidth = AttrValue(playlist[a], "BANDWIDTH=")

\* C17 witness: a tag was discarded with a warning, leaving its resolution
\* and bandwidth pending, and a Variant was emitted for a later pair
C17_Witness ==
    /\ pc = "returned"
    /\ warnings # <<>>
    /\ \E pr \in ValidPairs(playlist) :
          /\ pr[1] >= 3
          /\ ~ValidTag(TagOf(playlist[1]))
          /\ ~IsComment(playlist[2])
    /\ Len(streams) = 1

\* an attribute line: a comment carrying VIDEO=, BANDWIDTH= and RESOLUTION=
AttributeLine(l) == IsComment(l) /\ HasVideo(l) /\ ~Malformed(l)

\* line a is an attribute line that immediately follows another one
SecondOfTwo(p, a) ==
    a >= 2 /\ a <= Len(p) /\ AttributeLine(p[a - 1]) /\ AttributeLine(p[a])

\* C18: the step over an attribute line that immediately follows another
\* attribute line emits nothing, warns of nothing and fails nothing, and
\* replaces the pending tag, resolution and bandwidth by its own; the URI
\* line paired with it then yields exactly one Variant, built from the
\* second line's tag, resolution and bandwidth.
C18_SecondAttributeLineWins ==
    [][/\ (pc = "scan" /\ SecondOfTwo(playlist, i)) =>
             /\ quality = TagOf(playlist[i - 1])
             /\ pc' = "scan"
             /\ i' = i + 1
             /\ map' = map
             /\ warnings' = warnings
             /\ err' = err
             /\ quality' = TagOf(playlist[i])
             /\ resolution' = AttrValue(playlist[i], "RESOLUTION=")
             /\ bandwidth' = AttrValue(playlist[i], "BANDWIDTH=")
       /\ (/\ pc = "scan"
           /\ i <= Len(playlist)
           /\ SecondOfTwo(playlist, AttrBefore(playlist, i))
           /\ IsPair(playlist, AttrBefore(playlist, i), i)
           /\ ValidTag(TagOf(playlist[AttrBefore(playlist, i)]))) =>
             LET a == AttrBefore(playlist, i)
                 key == KeyOfTag(TagOf(playlist[a]))
             IN  /\ pc' = "scan"
                 /\ warnings' = warnings
                 /\ err' = err
                 /\ map' = [x \in (DOMAIN map) \cup {key} |->
                              IF x = key
                              THEN [link |-> playlist[i],
                                    resolution |-> AttrValue(playlist[a], "RESOLUTION="),
                                    bandwidth |-> AttrValue(playlist[a], "BANDWIDTH="),
                                    quality |-> key,
                                    ty |-> LabelOfKey(key)]
                              ELSE map[x]]
      ]_vars

\* C18 witness: two attribute lines of different ranks in a row, then a URI
\* line; the result holds the second line's Variant alone
C18_Witness ==
    /\ pc = "returned"
    /\ Len(playlist) >= 3
    /\ SecondOfTwo(playlist, 2)
    /\ ValidTag(TagOf(playlist[1]))
    /\ ValidTag(TagOf(playlist[2]))
    /\ KeyOfTag(TagOf(playlist[1])) # KeyOfTag(TagOf(playlist[2]))
    /\ playlist[3] = LineUri
    /\ KeysOf(streams) = {KeyOfTag(TagOf(playlist[2]))}
    /\ streams[1].bandwidth = AttrValue(playlist[2], "BANDWIDTH=")

\* the attribute lines among the first n lines of p
VideoLines(p, n) == {k \in 1..n : k <= Len(p) /\ HasVideo(p[k])}

\* C19: every step that emits a Variant or discards a tag happens at the URI
\* line paired with the latest attribute line and leaves the pending tag
\* empty, so that no later URI line consumes the same attribute line; the
\* Variants held and the tags discarded never outnumber the lines containing
\* VIDEO= that were read; a comment line without VIDEO= leaves the pending
\* tag, resolution and bandwidth as they were.
C19_ConsumedOnce ==
    [][/\ (pc = "scan" /\ (map' # map \/ warnings' # warnings)) =>
             /\ IsPair(playlist, AttrBefore(playlist, i), i)
             /\ quality' = <<>>
             /\ i' = i + 1
       /\ (/\ pc = "scan"
           /\ pc' = "scan"
           /\ i <= Len(playlist)
           /\ quality # <<>>
           /\ ~IsComment(playlist[i])) =>
             /\ quality' = <<>>
             /\ \/ /\ warnings' = Append(warnings, quality)
                   /\ map' = map
                \/ /\ warnings' = warnings
                   /\ KeyOfTag(quality) \in DOMAIN map'
                   /\ map'[KeyOfTag(quality)].link = playlist[i]
       /\ (/\ pc = "scan"
           /\ i <= Len(playlist)
           /\ IsComment(playlist[i])
           /\ ~HasVideo(playlist[i])) =>
             /\ pc' = "scan"
             /\ i' = i + 1
             /\ UNCHANGED <<quality, resolution, bandwidth, map, warnings>>
       /\ Cardinality(DOMAIN map') + Len(warnings')
             <= Cardinality(VideoLines(playlist', i' - 1))
      ]_vars

\* C19 witness: an attribute line, a comment line, its URI line and one more
\* URI line; one Variant results
C19_Witness ==
    /\ pc = "returned"
    /\ Len(playlist) = 4
    /\ AttributeLine(playlist[1])
    /\ playlist[2] = LineComment
    /\ playlist[3] = LineUri
    /\ playlist[4] = LineUri
    /\ Len(streams) = 1
    /\ streams[1].link = LineUri

\* C20: the returned sequence is a function of the map alone: the map's keys
\* are the ranks of its entries, so at most one entry has rank none and the
\* comparator orders any two different entries strictly and consistently;
\* every order in which the map may yield its entries sorts to the sequence
\* returned, which is strictly ordered by the comparator.
C20_DeterministicOrder ==
    /\ \A x \in DOMAIN map : map[x].quality = x
    /\ Cardinality({x \in DOMAIN map : map[x].quality = None}) <= 1
    /\ \A x, y \in DOMAIN map :
          x # y =>
             /\ Cmp(map[x], map[y]) # "Equal"
             /\ (Cmp(map[x], map[y]) = "Less") = (Cmp(map[y], map[x]) = "Greater")
    /\ \A x, y, z \in DOMAIN map :
          (x # y /\ y # z /\ Cmp(map[x], map[y]) = "Less"
                 /\ Cmp(map[y], map[z]) = "Less")
             => (x # z /\ Cmp(map[x], map[z]) = "Less")
    /\ pc = "returned" =>
          /\ \A o \in IterOrders(map) :
                SortUnstableBy([k \in DOMAIN o |-> map[o[k]]]) = streams
          /\ \A j, k \in 1..Len(streams) :
                j < k => Cmp(streams[j], streams[k]) = "Less"

\* C20 witness: a result of three Variants, which the map may have yielded
\* in six orders
C20_Witness ==
    /\ pc = "returned"
    /\ Cardinality(DOMAIN map) = 3
    /\ Cardinality(IterOrders(map)) = 6
    /\ streams[2].quality # None

\* C21: the player is spawned only in a run with neither json nor list set,
\* and only once client::get has returned a list and the policy has selected
\* a Variant from it; a run with json or list set, and a run that failed in
\* resolution or selection, has spawned nothing.
C21_PlayerOnlyAfterSelection ==
    /\ output.spawned =>
          /\ ~args.json
          /\ ~args.list
          /\ output.mode = "OpenPlayer"
          /\ output.printed = "none"
          /\ pc = "done"
          /\ err = NoError
          /\ tokenReqs = 1
          /\ playlistReqs = 1
          /\ i > Len(playlist)
          /\ streams # <<>>
          /\ stream # None
          /\ stream = SelectStream(streams, QualityOf(args)).stream
          /\ \E k \in 1..Len(streams) : stream = Some(streams[k])
    /\ (args.json \/ args.list) => ~output.spawned
    /\ pc # "done" => ~output.spawned
    /\ err # NoError => ~output.spawned

\* C21 witness: the player was spawned on the Variant a custom label selected
C21_Witness ==
    /\ output.spawned
    /\ QualityOf(args).tag = "Custom"
    /\ Len(streams) >= 2
    /\ stream # First(streams)

=============================================================================
